---- MODULE Spec2Model ----
(***************************************************************************)
(* docker-flow-swarm-listener: the reconciliation loop (main), the BigIp   *)
(* route synchronizer (bigip.go) and the collaborators main drives.        *)
(*                                                                         *)
(* Strings are sequences of one-character strings, so that ToLower and     *)
(* Split work on them as strings.ToLower and strings.Split do.  A JSON     *)
(* object is the set of its <<key, value>> members, so that `omitempty`    *)
(* is the absence of a member.                                             *)
(***************************************************************************)
EXTENDS Integers, Sequences, FiniteSets, TLC

\* ------------------------------------------------------------------ bounds
\* Iterations of main's for loop that are explored.
MaxIter == 3
\* Longest record collection the route store is let grow to.
MaxStore == 3
\* Calls the BigIp test harness makes (SpecBigIp).
MaxCalls == 2
\* Largest retry count a notification call is given (SpecNotify).
MaxRetry == 2

\* ------------------------------------------------------------------ domain
Names == {"svc1", "svc2"}

\* b.Pattern, config.PoolPattern
Pattern == <<"p">>

\* swarm.Service as far as bigip.go reads it: Spec.Name, and the lookup
\* `label, ok := s.Spec.Labels[SERVICE_PATH_LABEL]`.
Service(n, ok, l) == [Name |-> n, HasLabel |-> ok, Label |-> l]

\* The services the BigIp tests pass to AddRoutes: without the label, with a
\* label of no segment ("" and ","), of one path, of two, of an empty segment
\* between two paths; the two names share the path "a".
TestServices ==
    { Service("svc1", FALSE, <<>>), Service("svc1", TRUE, <<>>),
      Service("svc1", TRUE, <<"A">>), Service("svc1", TRUE, <<"a", ",", "B">>),
      Service("svc2", TRUE, <<",">>), Service("svc2", TRUE, <<"A">>),
      Service("svc2", TRUE, <<"a", ",", ",", "b">>) }

\* The services the orchestrator runs, of which a snapshot lists some.
SwarmServices ==
    { Service("svc1", TRUE, <<"A">>), Service("svc2", TRUE, <<"a", ",", "B">>) }

\* ---------------------------------------------------------- string helpers
ToLowerChar(c) ==
    CASE c = "A" -> "a"
      [] c = "B" -> "b"
      [] OTHER -> c

\* strings.ToLower
ToLower(s) == [i \in 1..Len(s) |-> ToLowerChar(s[i])]

RECURSIVE SplitFrom(_, _, _)
SplitFrom(s, cur, i) ==
    IF i > Len(s) THEN <<cur>>
    ELSE IF s[i] = "," THEN <<cur>> \o SplitFrom(s, <<>>, i + 1)
    ELSE SplitFrom(s, Append(cur, s[i]), i + 1)

\* strings.Split(label, ","): one more element than there are commas, empty
\* elements included.
Split(s) == SplitFrom(s, <<>>, 1)

\* ------------------------------------------------------------------- JSON
Member(obj, key) == \E m \in obj : m[1] = key
Value(obj, key) == (CHOOSE m \in obj : m[1] = key)[2]

\* Record: `json:"name,omitempty"`, `json:"data,omitempty"`
MarshalRecord(r) ==
    { <<"name", r.Name>> : x \in (IF r.Name = <<>> THEN {} ELSE {1}) }
        \cup { <<"data", r.Data>> : x \in (IF r.Data = <<>> THEN {} ELSE {1}) }

UnmarshalRecord(obj) ==
    [Name |-> IF Member(obj, "name") THEN Value(obj, "name") ELSE <<>>,
     Data |-> IF Member(obj, "data") THEN Value(obj, "data") ELSE <<>>]

\* DataGroup: `json:"records,omitempty"`; json.Marshal(dg)
Marshal(dg) ==
    IF Len(dg.Records) = 0 THEN {}
    ELSE { <<"records", [i \in 1..Len(dg.Records) |-> MarshalRecord(dg.Records[i])]>> }

\* json.Unmarshal(body, dg) of a decodable body
Unmarshal(body) ==
    [Records |->
        IF Member(body, "records")
        THEN [i \in 1..Len(Value(body, "records")) |->
                 UnmarshalRecord(Value(body, "records")[i])]
        ELSE <<>>]

\* ---------------------------------------------------------- bigip.go, pure
Record(name, data) == [Name |-> name, Data |-> data]

RECURSIVE getRecords(_, _)
getRecords(paths, pattern) ==
    IF paths = <<>> THEN <<>>
    ELSE (IF Len(Head(paths)) > 0 THEN <<Record(Head(paths), pattern)>> ELSE <<>>)
             \o getRecords(Tail(paths), pattern)

\* A containsRecord that matched on data as well as on name; the code's, below,
\* matches on the name alone.
containsRecordOfData(target, candidate) ==
    \E i \in 1..Len(target) :
        target[i].Name = candidate.Name /\ target[i].Data = candidate.Data

\* containsRecord: if r.Name == candidate.Name { return true }
containsRecord(target, candidate) ==
    \E i \in 1..Len(target) : target[i].Name = candidate.Name

\* A removeRecords that stopped at the first record it dropped.
RECURSIVE removeRecordsFirst(_, _)
removeRecordsFirst(from, remove) ==
    IF from = <<>> THEN <<>>
    ELSE IF containsRecord(remove, Head(from)) THEN Tail(from)
    ELSE <<Head(from)>> \o removeRecordsFirst(Tail(from), remove)

RECURSIVE removeRecords(_, _)
removeRecords(from, remove) ==
    IF from = <<>> THEN <<>>
    ELSE (IF ~containsRecord(remove, Head(from)) THEN <<Head(from)>> ELSE <<>>)
             \o removeRecords(Tail(from), remove)

\* An updateDataGroup that appended the records in remove mode too.
modifyRecordsAppend(dgRecords, paths, remove) ==
    dgRecords \o getRecords(paths, Pattern)

\* updateDataGroup, lines 116-125: the collection that is written back.
modifyRecords(dgRecords, paths, remove) ==
    IF remove THEN removeRecords(dgRecords, getRecords(paths, Pattern))
    ELSE dgRecords \o getRecords(paths, Pattern)


\* -------------------------------------------------------------------- state
VARIABLES
    pc,              \* main: the statement the loop is at
    iter,            \* main: iterations completed
    allServices,     \* main: allServices
    fetchErr,        \* main: err of s.GetServices() was not nil
    newServices,     \* main: newServices
    removedServices, \* main: removedServices
    CachedServices,  \* service.CachedServices, the Service Cache
    Services,        \* b.Services, the Route Cache
    store,           \* the data group the route store holds, a JSON document
    call,            \* the activation of AddRoutes / RemoveRoutes
    ret,             \* what the last AddRoutes / RemoveRoutes call returned
    calls,           \* calls the BigIp tests have made
    req,             \* history: the request the last step sent to the route store
    results,         \* history: what became of each item of the call so far
    added,           \* history: names with a successful Add of a record, not removed since
    preAdd,          \* history: per name, the store before its last successful Add
    it,              \* history: what happened in the current iteration of main
    prev,            \* history: the removals that failed in the previous iteration
    mu,              \* who holds the lock of the Service Cache
    access,          \* history: the access the last step made to the Service Cache
    notif,           \* the activation of ServicesCreate / ServicesRemove, in detail
    initial,         \* history: the data group as the process found it
    sent             \* history: the requests the running call has sent, in order

vars ==
    <<pc, iter, allServices, fetchErr, newServices, removedServices, CachedServices,
      Services, store, call, ret, calls, req, results, added, preAdd, it, prev,
      mu, access, notif, initial, sent>>

mainVars == <<pc, iter, allServices, fetchErr, newServices, removedServices>>

NoEntry == [ok |-> FALSE, paths |-> <<>>]
NoService == [ok |-> FALSE, service |-> Service("", FALSE, <<>>)]
IdleCall ==
    [pc |-> "idle", op |-> "none", items |-> <<>>, i |-> 0, errs |-> 0,
     paths |-> <<>>, dg |-> [Records |-> <<>>], pre |-> {}]
NoReq ==
    [method |-> "none", out |-> "none", by |-> "none", op |-> "none",
     name |-> "", paths |-> <<>>]
NoRet == [op |-> "none", err |-> FALSE, items |-> <<>>]
NoPreAdd == [state |-> "none", pre |-> {}, paths |-> <<>>]
NewIteration ==
    [pushed |-> FALSE, reqs |-> 0, notified |-> {}, failed |-> {},
     removeFailed |-> {}, routesFailed |-> {}, removeGets |-> {},
     addGets |-> {}, addFailed |-> {}]
NoPrev == [notifFailed |-> {}, routesFailed |-> {}, addFailed |-> {}]
NoAccess == [by |-> "none", holder |-> "free"]
NoNotify ==
    [pc |-> "idle", op |-> "none", items |-> <<>>, i |-> 0, retries |-> 0,
     attempts |-> 0, sleeps |-> 0, errs |-> 0, log |-> <<>>, err |-> FALSE]
\* An access to the Service Cache by a flow, and the holder of its lock then.
Access(by, holder) == [by |-> by, holder |-> holder]

SeqNames(svcs) == { svcs[i].Name : i \in 1..Len(svcs) }
Range(s) == { s[i] : i \in 1..Len(s) }
CachedNames == { n \in Names : CachedServices[n].ok }
StoreRecords == Unmarshal(store).Records

\* Sequences of at most two services, of distinct names.
Batches(svcs) ==
    { <<>> } \cup { <<s>> : s \in svcs }
        \cup { <<q[1], q[2]>> : q \in { r \in svcs \X svcs : r[1].Name # r[2].Name } }
\* The orders a set of names can be listed in (Go ranges over a map in any order).
Orders(S) == { q \in [1..Cardinality(S) -> S] : Range(q) = S }

\* What the route store may hold before the process touches it.
InitStores ==
    { Marshal([Records |-> r]) :
        r \in { <<>>,
                <<Record(<<"a">>, Pattern)>>,
                <<Record(<<"a">>, <<"q">>)>>,
                <<Record(<<"c">>, Pattern)>> } }

\* NewBigIp: Services: make(map[string][]string)
InitBigIp ==
    /\ Services = [n \in Names |-> NoEntry]
    /\ call = IdleCall
    /\ ret = NoRet
    /\ req = NoReq
    /\ results = <<>>
    /\ sent = <<>>
    /\ added = {}
    /\ preAdd = [n \in Names |-> NoPreAdd]

InitMain(start) ==
    /\ pc = start
    /\ iter = 0
    /\ allServices = <<>>
    /\ fetchErr = FALSE
    /\ newServices = <<>>
    /\ removedServices = <<>>
    /\ CachedServices = [n \in Names |-> NoService]
    /\ it = NewIteration
    /\ prev = NoPrev
    /\ calls = 0
    /\ mu = "free"
    /\ access = NoAccess
    /\ notif = NoNotify

\* main, lines 11-21: the state in which the loop is entered.
Init ==
    /\ InitMain("GetServices")
    /\ InitBigIp
    /\ store = Marshal([Records |-> <<>>])
    /\ initial = store

\* ------------------------------------------------- AddRoutes / RemoveRoutes
\* What b.Client.Do and the decoding of its response can come to: a transport
\* error, a status other than 200, a body json.Unmarshal rejects.
GetOutcomes == {"ok", "transport", "status", "badbody"}
PutOutcomes == {"ok", "transport", "status"}

\* AddRoutes: label = strings.ToLower(label); paths := strings.Split(label, ",")
AddPaths(label) == Split(ToLower(label))

\* An AddRoutes that cached the paths whatever updateDataGroup returned.
AddRoutesCacheAnyway(svcs, name, paths, err) ==
    [svcs EXCEPT ![name] = [ok |-> TRUE, paths |-> paths]]

\* AddRoutes: if err != nil { errs = append(errs, err) } else { b.Services[name] = paths }
AddRoutesCache(svcs, name, paths, err) ==
    IF err THEN svcs ELSE [svcs EXCEPT ![name] = [ok |-> TRUE, paths |-> paths]]

\* A RemoveRoutes that deleted the entry whatever updateDataGroup returned.
RemoveRoutesCacheAnyway(svcs, name, err) ==
    [svcs EXCEPT ![name] = NoEntry]

\* RemoveRoutes: if err != nil { errs = append(errs, err) } else { delete(b.Services, s) }
RemoveRoutesCache(svcs, name, err) ==
    IF err THEN svcs ELSE [svcs EXCEPT ![name] = NoEntry]

\* A return that let a single error pass.
ReturnsErrOverOne(errs) == errs > 1

\* if len(errs) > 0 { return fmt.Errorf(...) }; return nil
ReturnsErr(errs) == errs > 0

\* The loop body is over for the item: the range loop goes on to the next.
NextItem(c) == [c EXCEPT !.pc = "loop", !.i = @ + 1]

\* An error handling that returned at the first error instead of going on.
OnErrorReturn(c) == [c EXCEPT !.pc = "loop", !.i = Len(c.items) + 1, !.errs = @ + 1]

\* An error handling that panicked, as checkErr does, instead of going on.
OnErrorPanic(c) == [c EXCEPT !.pc = "panic", !.errs = @ + 1]

\* if err != nil { log.Printf(...); errs = append(errs, err) }: the error is
\* kept (its count is) and the loop goes on.
OnError(c) == [NextItem(c) EXCEPT !.errs = @ + 1]

\* A loop body whose `if` took every item.
ItemAppliesAlways(c) == TRUE

\* The item the running call is at: its name, whether the loop body's `if`
\* takes it, and the paths handed to updateDataGroup.
ItemName(c) == IF c.op = "add" THEN c.items[c.i].Name ELSE c.items[c.i]
ItemApplies(c) ==
    IF c.op = "add" THEN c.items[c.i].HasLabel ELSE Services[c.items[c.i]].ok
ItemPaths(c) ==
    IF c.op = "add" THEN AddPaths(c.items[c.i].Label) ELSE Services[c.items[c.i]].paths

Request(by, method, out, op, name, paths) ==
    [method |-> method, out |-> out, by |-> by, op |-> op, name |-> name,
     paths |-> paths]
Result(name, out) == [name |-> name, out |-> out]
\* A request as the store saw it: for a GET the body it answered with, for a
\* PUT the body it was sent.
Sent(method, name, ok, body) ==
    [method |-> method, name |-> name, ok |-> ok, body |-> body]

\* The call is entered: errs := []error{}
BeginCall(op, items) ==
    /\ call' = [IdleCall EXCEPT !.pc = "loop", !.op = op, !.items = items, !.i = 1]
    /\ results' = <<>>
    /\ sent' = <<>>
    /\ ret' = NoRet
    /\ req' = NoReq

\* The loop body for an item the `if` does not take: no label (AddRoutes), no
\* cache entry (RemoveRoutes).
RouteSkip ==
    /\ call.pc = "loop"
    /\ call.i <= Len(call.items)
    /\ ~ItemApplies(call)
    /\ call' = NextItem(call)
    /\ results' = Append(results, Result(ItemName(call), "skip"))
    /\ req' = NoReq
    /\ access' = NoAccess
    /\ UNCHANGED <<sent, notif, initial, mu, mainVars, CachedServices, Services, store, ret, calls, added,
                   preAdd, it, prev>>

\* updateDataGroup up to the decoded GET response (lines 100-114, 142-144), and,
\* when it returns an error, the caller's handling of it.
RouteGet ==
    /\ call.pc = "loop"
    /\ call.i <= Len(call.items)
    /\ ItemApplies(call)
    /\ \E g \in GetOutcomes :
        LET name == ItemName(call)
            paths == ItemPaths(call)
            err == g # "ok"
        IN  /\ call.op = "add" =>
                   Len(StoreRecords) + Len(getRecords(paths, Pattern)) <= MaxStore
            /\ req' = Request("main", "GET", g, call.op, name, paths)
            /\ sent' = Append(sent, Sent("GET", name, ~err,
                                         IF err THEN {} ELSE store))
            /\ call' = IF err
                       THEN OnError(call)
                       ELSE [call EXCEPT !.pc = "put", !.paths = paths,
                                         !.dg = Unmarshal(store), !.pre = store]
            /\ results' = IF err THEN Append(results, Result(name, "getfail"))
                          ELSE results
            /\ Services' = IF ~err THEN Services
                           ELSE IF call.op = "add"
                                THEN AddRoutesCache(Services, name, paths, TRUE)
                                ELSE RemoveRoutesCache(Services, name, TRUE)
            /\ it' = [it EXCEPT !.reqs = @ + 1,
                                !.failed =
                                    IF err THEN @ \cup {call.op} ELSE @,
                                !.routesFailed =
                                    IF err /\ call.op = "remove"
                                    THEN @ \cup {<<name, paths>>} ELSE @,
                                !.removeGets =
                                    IF call.op = "remove"
                                    THEN @ \cup {<<name, paths>>} ELSE @,
                                !.addGets =
                                    IF call.op = "add" THEN @ \cup {name} ELSE @,
                                !.addFailed =
                                    IF err /\ call.op = "add"
                                    THEN @ \cup {name} ELSE @]
    /\ access' = NoAccess
    /\ UNCHANGED <<notif, initial, mu, mainVars, CachedServices, store, ret, calls, added, preAdd, prev>>

\* updateDataGroup from the modification to the PUT response (lines 115-141),
\* and the caller's handling of what it returns.  A PUT that ends in a
\* transport error may or may not have reached the store.
RoutePut ==
    /\ call.pc = "put"
    /\ \E p \in PutOutcomes, applied \in BOOLEAN :
        LET name == ItemName(call)
            isAdd == call.op = "add"
            err == p # "ok"
            payload ==
                Marshal([Records |->
                    modifyRecords(call.dg.Records, call.paths, call.op = "remove")])
        IN  /\ p = "ok" => applied
            /\ p = "status" => ~applied
            /\ req' = Request("main", "PUT", p, call.op, name, call.paths)
            /\ sent' = Append(sent, Sent("PUT", name, ~err, payload))
            /\ store' = IF applied THEN payload ELSE store
            /\ Services' = IF isAdd
                           THEN AddRoutesCache(Services, name, call.paths, err)
                           ELSE RemoveRoutesCache(Services, name, err)
            /\ call' = [(IF err THEN OnError(call) ELSE NextItem(call))
                           EXCEPT !.paths = <<>>, !.dg = [Records |-> <<>>],
                                  !.pre = {}]
            /\ results' =
                   Append(results, Result(name, IF err THEN "putfail" ELSE "ok"))
            /\ added' =
                   IF err THEN added
                   ELSE IF ~isAdd THEN added \ {name}
                   ELSE IF Len(getRecords(call.paths, Pattern)) >= 1
                        THEN added \cup {name} ELSE added
            /\ preAdd' =
                   [n \in Names |->
                       IF err \/ n # name THEN NoPreAdd
                       ELSE IF isAdd
                            THEN [state |-> "added", pre |-> call.pre,
                                  paths |-> call.paths]
                       ELSE IF preAdd[n].state = "added"
                            THEN [preAdd[n] EXCEPT !.state = "removed"]
                       ELSE NoPreAdd]
            /\ it' = [it EXCEPT !.reqs = @ + 1,
                                !.failed =
                                    IF err THEN @ \cup {call.op} ELSE @,
                                !.routesFailed =
                                    IF err /\ ~isAdd
                                    THEN @ \cup {<<name, call.paths>>} ELSE @,
                                !.addFailed =
                                    IF err /\ isAdd THEN @ \cup {name} ELSE @]
    /\ access' = NoAccess
    /\ UNCHANGED <<notif, initial, mu, mainVars, CachedServices, ret, calls, prev>>

\* The loop is over: the call returns, to main (which drops the value) or to
\* the test that made it.
RouteReturn ==
    /\ call.pc = "loop"
    /\ call.i > Len(call.items)
    /\ ret' = [op |-> call.op, err |-> ReturnsErr(call.errs), items |-> call.items]
    /\ call' = IdleCall
    /\ req' = NoReq
    /\ pc' = CASE pc = "AddRoutes" -> "GetRemovedServices"
               [] pc = "RemoveRoutes" -> "Sleep"
               [] OTHER -> pc
    /\ access' = NoAccess
    /\ UNCHANGED <<sent, notif, initial, mu, iter, allServices, fetchErr, newServices, removedServices,
                   CachedServices, Services, store, calls, results, added,
                   preAdd, it, prev>>

\* ------------------------------------------------------- the BigIp test suite
\* A test builds a BigIp against a route store that holds some records and
\* calls AddRoutes and RemoveRoutes on it.
InitTest ==
    /\ InitMain("test")
    /\ InitBigIp
    /\ store \in InitStores
    /\ initial = store

TestAddRoutes ==
    /\ pc = "test"
    /\ call.pc = "idle"
    /\ calls < MaxCalls
    /\ \E batch \in Batches(TestServices) : BeginCall("add", batch)
    /\ calls' = calls + 1
    /\ access' = NoAccess
    /\ UNCHANGED <<notif, initial, mu, mainVars, CachedServices, Services, store, added, preAdd, it,
                   prev>>

TestRemoveRoutes ==
    /\ pc = "test"
    /\ call.pc = "idle"
    /\ calls < MaxCalls
    /\ \E S \in SUBSET Names : \E batch \in Orders(S) : BeginCall("remove", batch)
    /\ calls' = calls + 1
    /\ access' = NoAccess
    /\ UNCHANGED <<notif, initial, mu, mainVars, CachedServices, Services, store, added, preAdd, it,
                   prev>>

NextBigIp ==
    \/ TestAddRoutes
    \/ TestRemoveRoutes
    \/ RouteSkip
    \/ RouteGet
    \/ RoutePut
    \/ RouteReturn

SpecBigIp == InitTest /\ [][NextBigIp]_vars

\* ------------------------------------------------------ the service package
\* s.GetServices(): the orchestrator's current services, in its order, or an
\* error with no service.
Snapshots == Batches(SwarmServices)

\* The service package and the listener take the lock of the Service Cache for
\* each lookup-and-insert and each read of it, and release it when done.
\* s.GetNewServices(allServices): the services of the snapshot whose name the
\* Service Cache does not hold, in snapshot order
ComputeNew(snapshot, cache) ==
    SelectSeq(snapshot, LAMBDA s : ~cache[s.Name].ok)

\* ... each of which it inserts in the cache under its name.
InsertNew(snapshot, cache) ==
    [n \in Names |->
        IF ~cache[n].ok /\ n \in SeqNames(snapshot)
        THEN [ok |-> TRUE,
              service |-> CHOOSE s \in Range(snapshot) : s.Name = n]
        ELSE cache[n]]

\* s.GetRemovedServices(allServices): the cached names that the snapshot does
\* not list; it deletes nothing from the cache.
ComputeRemoved(snapshot, cache) ==
    { n \in Names : cache[n].ok /\ n \notin SeqNames(snapshot) }

\* A main that handed the synchronizer to the listener as well.
ServeGivenBigIp == TRUE

\* ------------------------------------------------------------------- main
\* The inbound listener is built from the service and the notification only:
\* serve := NewServe(s, n)
ServeHoldsBigIp == FALSE

\* allServices, err := s.GetServices(); if err != nil { metrics.RecordError }
GetServices ==
    /\ pc = "GetServices"
    /\ \E ok \in BOOLEAN, snapshot \in Snapshots :
        /\ ~ok => snapshot = <<>>
        /\ allServices' = snapshot
        /\ fetchErr' = ~ok
    /\ pc' = "GetNewServices"
    /\ req' = NoReq
    /\ access' = NoAccess
    /\ UNCHANGED <<sent, notif, initial, mu, iter, newServices, removedServices, CachedServices, Services,
                   store, call, ret, calls, results, added, preAdd, it, prev>>

\* newServices, err := s.GetNewServices(allServices)
GetNewServices ==
    /\ pc = "GetNewServices"
    /\ mu = "free"
    /\ newServices' = ComputeNew(allServices, CachedServices)
    /\ CachedServices' = InsertNew(allServices, CachedServices)
    /\ pc' = "ServicesCreate"
    /\ req' = NoReq
    /\ access' = Access("main", "main")
    /\ UNCHANGED <<sent, notif, initial, mu, iter, allServices, fetchErr, removedServices, Services, store,
                   call, ret, calls, results, added, preAdd, it, prev>>

\* err = n.ServicesCreate(newServices, args.Retry, args.RetryInterval): every
\* service is notified; the notifications of `lost` fail to the last retry.
ServicesCreate ==
    /\ pc = "ServicesCreate"
    /\ \E lost \in SUBSET SeqNames(newServices) :
        it' = [it EXCEPT !.notified =
                             @ \cup { <<"create", n>> : n \in SeqNames(newServices) },
                         !.failed =
                             IF lost # {} THEN @ \cup {"ServicesCreate"} ELSE @]
    /\ pc' = "AddRoutes"
    /\ req' = NoReq
    /\ access' = NoAccess
    /\ UNCHANGED <<sent, notif, initial, mu, iter, allServices, fetchErr, newServices, removedServices,
                   CachedServices, Services, store, call, ret, calls, results,
                   added, preAdd, prev>>

\* bigIp.AddRoutes(newServices)
AddRoutes ==
    /\ pc = "AddRoutes"
    /\ call.pc = "idle"
    /\ BeginCall("add", newServices)
    /\ access' = NoAccess
    /\ UNCHANGED <<notif, initial, mu, mainVars, CachedServices, Services, store, calls, added, preAdd,
                   it, prev>>

\* removedServices := s.GetRemovedServices(allServices)
GetRemovedServices ==
    /\ pc = "GetRemovedServices"
    /\ mu = "free"
    /\ removedServices' \in Orders(ComputeRemoved(allServices, CachedServices))
    /\ pc' = "ServicesRemove"
    /\ req' = NoReq
    /\ access' = Access("main", "main")
    /\ UNCHANGED <<sent, notif, initial, mu, iter, allServices, fetchErr, newServices, CachedServices,
                   Services, store, call, ret, calls, results, added, preAdd, it,
                   prev>>

\* err = n.ServicesRemove(removedServices, args.Retry, args.RetryInterval), and
\* metrics.RecordService(len(service.CachedServices)): main reads the size of
\* the Service Cache as it stands, whoever holds the lock.
ServicesRemove ==
    /\ pc = "ServicesRemove"
    /\ \E lost \in SUBSET Range(removedServices) :
        it' = [it EXCEPT !.notified =
                             @ \cup { <<"remove", n>> : n \in Range(removedServices) },
                         !.failed =
                             IF lost # {} THEN @ \cup {"ServicesRemove"} ELSE @,
                         !.removeFailed = lost]
    /\ pc' = "RemoveRoutes"
    /\ req' = NoReq
    /\ access' = Access("main", mu)
    /\ UNCHANGED <<sent, notif, initial, mu, iter, allServices, fetchErr, newServices, removedServices,
                   CachedServices, Services, store, call, ret, calls, results,
                   added, preAdd, prev>>

\* bigIp.RemoveRoutes(removedServices)
RemoveRoutes ==
    /\ pc = "RemoveRoutes"
    /\ call.pc = "idle"
    /\ BeginCall("remove", removedServices)
    /\ access' = NoAccess
    /\ UNCHANGED <<notif, initial, mu, mainVars, CachedServices, Services, store, calls, added, preAdd,
                   it, prev>>

\* time.Sleep(...), and the for loop starts over.
Sleep ==
    /\ pc = "Sleep"
    /\ iter + 1 < MaxIter
    /\ iter' = iter + 1
    /\ pc' = "GetServices"
    /\ allServices' = <<>>
    /\ fetchErr' = FALSE
    /\ newServices' = <<>>
    /\ removedServices' = <<>>
    /\ prev' = [notifFailed |-> it.removeFailed, routesFailed |-> it.routesFailed,
                addFailed |-> { n \in prev.addFailed \cup it.addFailed :
                                  ~Services[n].ok }]
    /\ it' = [NewIteration EXCEPT !.pushed = it.pushed]
    /\ ret' = NoRet
    /\ results' = <<>>
    /\ sent' = <<>>
    /\ req' = NoReq
    /\ access' = NoAccess
    /\ UNCHANGED <<notif, initial, mu, CachedServices, Services, store, call, calls, added, preAdd>>

\* go serve.Run(): on a push from the orchestrator the listener takes the lock
\* of the Service Cache ...
ServeLock ==
    /\ pc # "test"
    /\ mu = "free"
    /\ \E s \in SwarmServices : ~CachedServices[s.Name].ok
    /\ mu' = "serve"
    /\ req' = NoReq
    /\ access' = NoAccess
    /\ UNCHANGED <<sent, notif, initial, mainVars, CachedServices, Services, store, call, ret, calls,
                   results, added, preAdd, it, prev>>

\* ... looks the service up in the Service Cache, inserts it when it is not
\* there, and releases the lock.
ServeRun ==
    /\ pc # "test"
    /\ mu = "serve"
    /\ mu' = "free"
    /\ access' = Access("serve", "serve")
    /\ \E s \in SwarmServices :
        /\ ~CachedServices[s.Name].ok
        /\ CachedServices' =
               [CachedServices EXCEPT ![s.Name] = [ok |-> TRUE, service |-> s]]
        /\ req' = IF ServeHoldsBigIp
                  THEN Request("serve", "GET", "ok", "add", s.Name, AddPaths(s.Label))
                  ELSE NoReq
    /\ it' = [it EXCEPT !.pushed = TRUE]
    /\ UNCHANGED <<sent, notif, initial, mainVars, Services, store, call, ret, calls, results, added,
                   preAdd, prev>>

Next ==
    \/ GetServices
    \/ GetNewServices
    \/ ServicesCreate
    \/ AddRoutes
    \/ GetRemovedServices
    \/ ServicesRemove
    \/ RemoveRoutes
    \/ Sleep
    \/ ServeLock
    \/ ServeRun
    \/ RouteSkip
    \/ RouteGet
    \/ RoutePut
    \/ RouteReturn

Spec == Init /\ [][Next]_vars

\* One step of the loop's flow of control: a statement of main, or a step of
\* the AddRoutes / RemoveRoutes call it is in.
LoopStep ==
    \/ GetServices
    \/ GetNewServices
    \/ ServicesCreate
    \/ AddRoutes
    \/ GetRemovedServices
    \/ ServicesRemove
    \/ RemoveRoutes
    \/ Sleep
    \/ RouteSkip
    \/ RouteGet
    \/ RoutePut
    \/ RouteReturn

\* The loop's goroutine is scheduled, every call it makes returns (requests
\* and sleeps are finite), and the listener leaves its critical section.
SpecLive == Spec /\ WF_vars(LoopStep) /\ WF_vars(ServeRun)

\* ------------------------------------------- the notification dispatcher
\* n.ServicesCreate(services, retries, interval) and n.ServicesRemove(names,
\* retries, interval), a step at a time: each item is sent, and sent again
\* after a sleep of `interval` while it fails and retries are left.

\* A notification that always fails is attempted no more than this.
AttemptsAllowedFewer(retries) == retries

\* The attempts a notification is allowed: the first and `retries` more.
AttemptsAllowed(retries) == retries + 1

\* What became of one item: the attempts made, the sleeps between them.
Delivery(name, attempts, sleeps, ok) ==
    [name |-> name, attempts |-> attempts, sleeps |-> sleeps, ok |-> ok]

InitNotify ==
    /\ InitMain("notify")
    /\ InitBigIp
    /\ store = Marshal([Records |-> <<>>])
    /\ initial = store

\* The call is entered with a batch and a retry count.
NotifyCall ==
    /\ pc = "notify"
    /\ notif.pc \in {"idle", "returned"}
    /\ calls < MaxCalls
    /\ \E op \in {"create", "remove"}, S \in SUBSET Names, r \in 0..MaxRetry :
        \E batch \in Orders(S) :
            notif' = [NoNotify EXCEPT !.pc = "send", !.op = op, !.items = batch,
                                      !.i = 1, !.retries = r]
    /\ calls' = calls + 1
    /\ UNCHANGED <<sent, mainVars, CachedServices, Services, store, call, ret, req,
                   results, added, preAdd, it, prev, mu, access, initial>>

\* One attempt to deliver the notification of the item the call is at.
NotifySend ==
    /\ notif.pc = "send"
    /\ notif.i <= Len(notif.items)
    /\ \E ok \in BOOLEAN :
        LET n == notif.attempts + 1
            done(good) ==
                [notif EXCEPT !.i = @ + 1, !.attempts = 0, !.sleeps = 0,
                              !.errs = IF good THEN @ ELSE @ + 1,
                              !.log = Append(@, Delivery(notif.items[notif.i], n,
                                                         notif.sleeps, good))]
        IN  notif' = IF ok THEN done(TRUE)
                     ELSE IF n < AttemptsAllowed(notif.retries)
                          THEN [notif EXCEPT !.attempts = n, !.pc = "sleep"]
                     ELSE done(FALSE)
    /\ UNCHANGED <<sent, mainVars, CachedServices, Services, store, call, ret, calls,
                   req, results, added, preAdd, it, prev, mu, access, initial>>

\* The interval elapses before the next attempt.
NotifySleep ==
    /\ notif.pc = "sleep"
    /\ notif' = [notif EXCEPT !.pc = "send", !.sleeps = @ + 1]
    /\ UNCHANGED <<sent, mainVars, CachedServices, Services, store, call, ret, calls,
                   req, results, added, preAdd, it, prev, mu, access, initial>>

\* Every item has been dealt with: the aggregate error is returned.
NotifyReturn ==
    /\ notif.pc = "send"
    /\ notif.i > Len(notif.items)
    /\ notif' = [notif EXCEPT !.pc = "returned", !.err = notif.errs > 0]
    /\ UNCHANGED <<sent, mainVars, CachedServices, Services, store, call, ret, calls,
                   req, results, added, preAdd, it, prev, mu, access, initial>>

NextNotify ==
    \/ NotifyCall
    \/ NotifySend
    \/ NotifySleep
    \/ NotifyReturn

SpecNotify == InitNotify /\ [][NextNotify]_vars

\* ------------------------------------------------------------------ claims
\* The call the history `results` is about: the running one, or the one that
\* has just returned.
CallOp == IF call.pc = "idle" THEN ret.op ELSE call.op
CallItems == IF call.pc = "idle" THEN ret.items ELSE call.items
Returned == call.pc = "idle" /\ ret.op # "none"
Failed(out) == out \in {"getfail", "putfail"}
NonEmpty(paths) == { paths[i] : i \in { j \in 1..Len(paths) : paths[j] # <<>> } }

\* A service AddRoutes is to skip: no label, or a label of no non-empty segment.
NoSegment(s) == ~s.HasLabel \/ NonEmpty(AddPaths(s.Label)) = {}

\* C1: an iteration whose snapshot fetch failed runs with an empty new set and
\* an empty removed set, notifies nobody and sends the route store no request.
C1_FailedFetchIsQuiet ==
    (fetchErr /\ ~it.pushed) =>
        /\ newServices = <<>>
        /\ removedServices = <<>>
        /\ it.notified = {}
        /\ it.reqs = 0

\* C2: AddRoutes skips every service without the label or with a label of no
\* non-empty segment: no GET, no PUT, no error, no Route Cache entry made.
C2_NoSegmentIsSkipped ==
    CallOp = "add" =>
        /\ \A k \in 1..Len(results) :
               NoSegment(CallItems[k]) => results[k].out = "skip"
        /\ call.pc = "put" => ~NoSegment(call.items[call.i])

\* C3 as stated: a successful Add of X with two paths followed by a successful
\* Remove of X leaves the Route Cache without X and the store as it was
\* before the Add.
C3_RoundTripRestoresStore ==
    \A n \in Names :
        (preAdd[n].state = "removed" /\ Len(preAdd[n].paths) = 2) =>
            /\ ~Services[n].ok
            /\ StoreRecords = Unmarshal(preAdd[n].pre).Records

\* C3 as amended: ... leaves the Route Cache without X and the store as it
\* was before the Add less every record named by one of the two paths.
C3_RoundTripDropsNamed ==
    \A n \in Names :
        (preAdd[n].state = "removed" /\ Len(preAdd[n].paths) = 2) =>
            /\ ~Services[n].ok
            /\ StoreRecords =
                   SelectSeq(Unmarshal(preAdd[n].pre).Records,
                             LAMBDA r : r.Name \notin NonEmpty(preAdd[n].paths))

\* A round trip over a store that held a record named by one of the paths.
C3_Witness ==
    \E n \in Names :
        /\ preAdd[n].state = "removed"
        /\ Len(preAdd[n].paths) = 2
        /\ \E r \in Range(Unmarshal(preAdd[n].pre).Records) :
               r.Name \in NonEmpty(preAdd[n].paths)

\* C4: a name is a key of the Route Cache iff an Add of at least one record
\* succeeded for it and no Remove of it has succeeded since.
C4_CachedIffAdded ==
    \A n \in Names : Services[n].ok <=> n \in added

\* C5: at the end of an iteration in which every stage succeeded, the names of
\* the Service Cache are the names of the iteration's snapshot.
C5_CacheIsSnapshot ==
    (pc = "Sleep" /\ ~fetchErr /\ it.failed = {} /\ ~it.pushed) =>
        CachedNames = SeqNames(allServices)

\* C6: a failure for one item of a batch does not keep the rest from being
\* processed: the failing step leaves the Route Cache alone and goes on to the
\* next item, and when the call returns every item has been processed, each
\* item that succeeded is in the Route Cache with its paths (Add) or out of it
\* (Remove), and the call returns an error if an item failed.
C6_AtReturn ==
    Returned =>
        /\ Len(results) = Len(ret.items)
        /\ \A k \in 1..Len(results) :
               /\ ret.op = "add" =>
                      /\ results[k].name = ret.items[k].Name
                      /\ results[k].out = "ok" =>
                             Services[ret.items[k].Name] =
                                 [ok |-> TRUE, paths |-> AddPaths(ret.items[k].Label)]
               /\ ret.op = "remove" =>
                      /\ results[k].name = ret.items[k]
                      /\ results[k].out = "ok" => ~Services[ret.items[k]].ok
               /\ Failed(results[k].out) => ret.err
C6_FailingStep ==
    (req'.by = "main" /\ req'.method = "GET" /\ req'.out # "ok") =>
        /\ Services' = Services
        /\ call'.pc = "loop"
        /\ call'.items = call.items
        /\ call'.i = call.i + 1
C6_FailureIsolation == [](C6_AtReturn) /\ [][C6_FailingStep]_vars

\* A call on [X, Y] has returned: the GET failed for X, Y was updated.
C6_Witness ==
    /\ Returned
    /\ Len(results) = 2
    /\ results[1].out = "getfail"
    /\ results[2].out = "ok"
    /\ ret.err

\* C7: AddRoutes and RemoveRoutes return an error iff the protocol failed for
\* an item; a call whose items all succeeded or were skipped returns nil.
C7_ErrIffItemFailed ==
    Returned => (ret.err <=> \E k \in 1..Len(results) : Failed(results[k].out))

\* A call has returned nil after skipping one item and updating the other.
C7_Witness ==
    /\ Returned
    /\ ~ret.err
    /\ \E k \in 1..Len(results) : results[k].out = "skip"
    /\ \E k \in 1..Len(results) : results[k].out = "ok"

\* C8: a step of the protocol that fails leaves the Route Cache as it was; a
\* GET that fails is followed by no PUT and leaves the store as it was.
C8_FailingStep ==
    (req'.by = "main" /\ req'.method # "none" /\ req'.out # "ok") =>
        /\ Services' = Services
        /\ req'.method = "GET" => (store' = store /\ call'.pc # "put")
C8_FailureKeepsCache == [][C8_FailingStep]_vars

\* An Add has failed at the PUT, which reached the store all the same: the
\* records are in the store and the name is not in the Route Cache.
C8_Witness ==
    /\ req.method = "PUT"
    /\ req.op = "add"
    /\ req.out = "transport"
    /\ ~Services[req.name].ok
    /\ \E r \in Range(StoreRecords) : r.Name \in NonEmpty(req.paths)

\* C9: a removal of X that failed in an iteration (the notification, or
\* RemoveRoutes) is attempted again on the next poll if the snapshot still
\* does not list X: X is in the removed set, the notification is sent again,
\* RemoveRoutes sends its GET again, for the paths it failed with.
C9_FailedRemovalRetried ==
    pc = "Sleep" =>
        \A n \in Names \ SeqNames(allServices) :
            /\ n \in prev.notifFailed =>
                   /\ n \in Range(removedServices)
                   /\ <<"remove", n>> \in it.notified
            /\ \A f \in prev.routesFailed :
                   f[1] = n =>
                       /\ n \in Range(removedServices)
                       /\ f \in it.removeGets

\* The notification of X's removal went through and RemoveRoutes failed for
\* X; the next iteration, whose snapshot was fetched without X, has tried again.
C9_Witness ==
    /\ pc = "Sleep"
    /\ ~fetchErr
    /\ \E f \in prev.routesFailed :
           /\ f[1] \notin SeqNames(allServices)
           /\ f[1] \notin prev.notifFailed
           /\ f \in it.removeGets

\* C10: while a cycle is open (its GET answered, its PUT not yet) the only
\* request sent to the route store is that cycle's PUT; every request is the
\* loop's; a step of the listener leaves the synchronizer, its Route Cache and
\* the store alone.
C10_Step ==
    /\ (call.pc = "put" /\ req'.method # "none") =>
           /\ req'.method = "PUT"
           /\ req'.name = ItemName(call)
           /\ req'.op = call.op
    /\ req'.method # "none" => req'.by = "main"
    /\ ServeRun => UNCHANGED <<Services, store, call, ret>>
C10_NoOverlap == [][C10_Step]_vars

\* The listener has taken a step while a cycle was open.
C10_Witness ==
    /\ call.pc = "put"
    /\ req.method = "none"
    /\ it.pushed

\* C11: every access to the Service Cache, the loop's and the listener's, the
\* reading of its size included, is made by the flow that holds its lock.
C11_AccessHoldsLock ==
    access.by # "none" => access.holder = access.by

\* C12: the stages of an iteration run in the fixed order, whatever fails; every
\* iteration that is begun reaches its sleep, and every sleep is followed by the
\* next iteration (as far as iterations are explored).
C12_StageOrder ==
    { <<"GetServices", "GetNewServices">>, <<"GetNewServices", "ServicesCreate">>,
      <<"ServicesCreate", "AddRoutes">>, <<"AddRoutes", "GetRemovedServices">>,
      <<"GetRemovedServices", "ServicesRemove">>, <<"ServicesRemove", "RemoveRoutes">>,
      <<"RemoveRoutes", "Sleep">>, <<"Sleep", "GetServices">> }
C12_InOrder ==
    /\ pc' # pc => <<pc, pc'>> \in C12_StageOrder
    /\ iter' # iter => (pc = "Sleep" /\ iter' = iter + 1)
    /\ pc' = pc => iter' = iter
C12_EveryStageRuns ==
    /\ [][C12_InOrder]_vars
    /\ \A k \in 0..(MaxIter - 1) :
           (pc = "GetServices" /\ iter = k) ~> (pc = "Sleep" /\ iter = k)
    /\ \A k \in 0..(MaxIter - 2) :
           (pc = "Sleep" /\ iter = k) ~> (pc = "GetServices" /\ iter = k + 1)

\* An iteration has begun after one in which the remove notification and
\* RemoveRoutes both failed.
C12_Witness ==
    /\ pc = "GetServices"
    /\ iter >= 1
    /\ prev.notifFailed # {}
    /\ prev.routesFailed # {}

\* C13: a successful Add for a label with a non-empty segment appends one
\* record per non-empty lower-cased segment, in label order, with the pattern
\* as data, and caches exactly the list of those segments.
C13_Segments(label) == SelectSeq(Split(ToLower(label)), LAMBDA p : p # <<>>)
C13_AddStep ==
    (req'.method = "PUT" /\ req'.out = "ok" /\ req'.op = "add"
        /\ C13_Segments(call.items[call.i].Label) # <<>>) =>
        LET s == call.items[call.i]
            segs == C13_Segments(s.Label)
        IN  /\ Unmarshal(store').Records =
                   Unmarshal(store).Records
                       \o [k \in 1..Len(segs) |-> Record(segs[k], Pattern)]
            /\ Services'[s.Name] = [ok |-> TRUE, paths |-> segs]
C13_OneRoutePerSegment == [][C13_AddStep]_vars

\* C14: an Add that failed for X is attempted again once the store answers:
\* at the end of a later iteration in which nothing failed and whose snapshot
\* lists X, AddRoutes has sent its GET for X and X's routes are in the Route
\* Cache and in the store.
C14_FailedAddRetried ==
    (pc = "Sleep" /\ ~fetchErr /\ it.failed = {}) =>
        \A n \in prev.addFailed \cap SeqNames(allServices) :
            /\ n \in it.addGets
            /\ Services[n].ok
            /\ \A p \in NonEmpty(Services[n].paths) :
                   \E r \in Range(StoreRecords) : r.Name = p

\* C15: with retry count r, a notification whose every attempt fails is
\* attempted exactly r + 1 times with a sleep between consecutive attempts and
\* then reported as failed; one that succeeds at attempt k <= r + 1 is attempted
\* exactly k times; the call returns an error iff a notification failed.
C15_RetryBound ==
    /\ \A k \in 1..Len(notif.log) :
           LET d == notif.log[k]
           IN  /\ d.name = notif.items[k]
               /\ d.sleeps = d.attempts - 1
               /\ d.attempts \in 1..(notif.retries + 1)
               /\ ~d.ok => d.attempts = notif.retries + 1
    /\ notif.pc = "returned" =>
           /\ Len(notif.log) = Len(notif.items)
           /\ notif.err <=> \E k \in 1..Len(notif.log) : ~notif.log[k].ok

\* A call with two retries has returned: one notification failed for good,
\* one got through at its second attempt.
C15_Witness ==
    /\ notif.pc = "returned"
    /\ notif.retries = 2
    /\ \E k \in 1..Len(notif.log) : ~notif.log[k].ok /\ notif.log[k].attempts = 3
    /\ \E k \in 1..Len(notif.log) : notif.log[k].ok /\ notif.log[k].attempts = 2

\* C16: for each item that is not skipped the call sends one GET and then,
\* only if the GET succeeded, one PUT, which carries the fetched collection as
\* modified for the item's paths; a failed GET is followed by no PUT.  From an
\* empty store, AddRoutes for svc1 with one path sends one PUT with that one
\* record, and the RemoveRoutes([svc1]) that follows sends one GET, answered
\* with that record, and one PUT with no record.
C16_Sends(out, name) ==
    CASE out = "skip" -> <<>>
      [] out = "getfail" -> << <<"GET", name, FALSE>> >>
      [] out = "putfail" -> << <<"GET", name, TRUE>>, <<"PUT", name, FALSE>> >>
      [] out = "ok" -> << <<"GET", name, TRUE>>, <<"PUT", name, TRUE>> >>
RECURSIVE C16_Expected(_)
C16_Expected(rs) ==
    IF rs = <<>> THEN <<>>
    ELSE C16_Sends(Head(rs).out, Head(rs).name) \o C16_Expected(Tail(rs))
C16_OneGetOnePut ==
    [k \in 1..Len(sent) |-> <<sent[k].method, sent[k].name, sent[k].ok>>]
        = C16_Expected(results)
              \o (IF call.pc = "put"
                  THEN << <<"GET", ItemName(call), TRUE>> >> ELSE <<>>)
C16_PutStep ==
    req'.method = "PUT" =>
        LET get == sent[Len(sent)]
            put == sent'[Len(sent')]
            fetched == Unmarshal(get.body).Records
            names == NonEmpty(req'.paths)
        IN  /\ get.method = "GET" /\ get.ok /\ get.name = put.name
            /\ Unmarshal(put.body).Records =
                   IF req'.op = "add"
                   THEN fetched \o [k \in 1..Len(SelectSeq(req'.paths, LAMBDA p : p # <<>>)) |->
                            Record(SelectSeq(req'.paths, LAMBDA p : p # <<>>)[k], Pattern)]
                   ELSE SelectSeq(fetched, LAMBDA r : r.Name \notin names)
C16_Scenario ==
    /\ (/\ Returned /\ ret.op = "add" /\ initial = Marshal([Records |-> <<>>])
        /\ calls = 1
        /\ ret.items = <<Service("svc1", TRUE, <<"A">>)>>
        /\ results = <<Result("svc1", "ok")>>) =>
           /\ Len(sent) = 2
           /\ sent[2].method = "PUT"
           /\ Unmarshal(sent[2].body).Records = <<Record(<<"a">>, Pattern)>>
    /\ (/\ Returned /\ ret.op = "remove" /\ ret.items = <<"svc1">>
        /\ results = <<Result("svc1", "ok")>>
        /\ preAdd["svc1"] =
               [state |-> "removed", pre |-> Marshal([Records |-> <<>>]),
                paths |-> << <<"a">> >>]) =>
           /\ Len(sent) = 2
           /\ sent[1].method = "GET"
           /\ Unmarshal(sent[1].body).Records = <<Record(<<"a">>, Pattern)>>
           /\ sent[2].method = "PUT"
           /\ Unmarshal(sent[2].body).Records = <<>>
C16_GetThenPut ==
    /\ [](C16_OneGetOnePut /\ C16_Scenario)
    /\ [][C16_PutStep]_vars

\* The scenario has been played: svc1 added to an empty store, then removed.
C16_Witness ==
    /\ Returned /\ ret.op = "remove" /\ ret.items = <<"svc1">>
    /\ initial = Marshal([Records |-> <<>>])
    /\ results = <<Result("svc1", "ok")>>
    /\ preAdd["svc1"] =
           [state |-> "removed", pre |-> Marshal([Records |-> <<>>]),
            paths |-> << <<"a">> >>]

\* C17: in remove mode the collection written back is the fetched collection
\* without the records named by a candidate, whatever their data and however
\* many, the others kept in the fetched order, once per occurrence.
C17_RemoveStep ==
    (call.pc = "put" /\ call.op = "remove" /\ req'.method = "PUT") =>
        LET fetched == call.dg.Records
            written == Unmarshal(sent'[Len(sent')].body).Records
            candidates == { p \in Range(call.paths) : p # <<>> }
            kept == { k \in 1..Len(fetched) : fetched[k].Name \notin candidates }
        IN  /\ Len(written) = Cardinality(kept)
            /\ \A j \in 1..Len(written) :
                   LET k == CHOOSE k \in kept :
                                Cardinality({ h \in kept : h < k }) = j - 1
                   IN  written[j] = fetched[k]
C17_RemoveByNameOnly == [][C17_RemoveStep]_vars

\* A Remove has dropped two records of one name and different data.
C17_Witness ==
    /\ req.method = "PUT" /\ req.op = "remove" /\ req.out = "ok"
    /\ Len(sent) >= 2
    /\ LET fetched == Unmarshal(sent[Len(sent) - 1].body).Records
       IN  \E i, j \in 1..Len(fetched) :
               /\ fetched[i].Name = fetched[j].Name
               /\ fetched[i].Data # fetched[j].Data
               /\ fetched[i].Name \in NonEmpty(req.paths)
    /\ StoreRecords = <<>>

\* C18: RemoveRoutes passes over a name that is not a key of the Route Cache:
\* no request, no error, the Route Cache and the store as they were; so a
\* RemoveRoutes of a name that has just been removed does nothing.
C18_SkipStep ==
    (/\ call.op = "remove" /\ call.pc = "loop" /\ call.i <= Len(call.items)
     /\ ~Services[call.items[call.i]].ok
     /\ call' # call) =>
        /\ req'.method = "none"
        /\ sent' = sent
        /\ call'.errs = call.errs
        /\ call'.i = call.i + 1
        /\ Services' = Services
        /\ store' = store
C18_AtReturn ==
    (Returned /\ ret.op = "remove"
        /\ \A k \in 1..Len(results) : results[k].out = "skip") =>
        sent = <<>> /\ ~ret.err
C18_AbsentNameSkipped == [](C18_AtReturn) /\ [][C18_SkipStep]_vars

\* RemoveRoutes has returned from a call for a name whose routes the call
\* before removed: it passed over the name.
C18_Witness ==
    /\ Returned /\ ret.op = "remove" /\ ~ret.err
    /\ \E k \in 1..Len(results) :
           /\ results[k].out = "skip"
           /\ preAdd[results[k].name].state = "removed"

\* C19: when no request has failed, every non-empty path the Route Cache holds
\* for a service is the name of a record in the store.
C19_CachedPathsRoutable ==
    it.failed = {} =>
        \A n \in Names :
            Services[n].ok =>
                \A p \in NonEmpty(Services[n].paths) :
                    \E r \in Range(StoreRecords) : r.Name = p

\* C20: from an empty store, when no request has failed, every record in the
\* store is named by a path the Route Cache holds for some service.
C20_NoOrphanedRecord ==
    (it.failed = {} /\ initial = Marshal([Records |-> <<>>])) =>
        \A r \in Range(StoreRecords) :
            \E n \in Names : Services[n].ok /\ r.Name \in NonEmpty(Services[n].paths)

====
